---- MODULE Spec2Model ----
(***************************************************************************)
(* Consistent-hash router (package consistent_hash) over its HashRing      *)
(* store.  Strings are sequences of tokens, so that the formatting of a    *)
(* virtual-node key (fmt.Sprintf) and its parsing (strings.LastIndex) are  *)
(* computed the way the Go code computes them.                             *)
(***************************************************************************)
EXTENDS Integers, Sequences, FiniteSets, TLC

\* ------------------------------------------------------------ bounds
\* Invocations of AddNode/RemoveNode/GetNode started in one behaviour.
MaxOps == 3
\* Invocations started in one behaviour of the small ring that churns.
ChurnOps == 6
\* Invocations started in one behaviour of the ring that grows to three nodes.
GrowOps == 4
\* Invocations started in one behaviour of the two callers.
LockOps == 3
\* Invocations started in one behaviour of the ring of weighted nodes.
WeighOps == 3
\* Invocations started in one behaviour of the ring of two like-named nodes.
AliasOps == 4
\* Invocations started in one behaviour of the node that comes a second time.
TwiceOps == 6
\* Store calls that fail with a transport error in one behaviour.
MaxFaults == 1

\* ------------------------------------------------------------ constants
\* math.MaxInt32: the length of the ring.
MaxInt32 == 2147483647
\* ConsistentHashOptions.replicas after repair: virtual nodes per unit of weight.
replicaScale == 1

\* ------------------------------------------------------------ inputs
NodeIDs == {<<"A">>, <<"B">>, <<"C">>}
KeySet == {<<"k1">>, <<"k2">>}
Weights == {0, 2}
Procs == {"p1", "p2"}

NoStr == <<>>

\* ------------------------------------------------------------ strings
Digit(d) == CASE d = 0 -> "0" [] d = 1 -> "1" [] d = 2 -> "2" [] d = 3 -> "3"
              [] d = 4 -> "4" [] d = 5 -> "5" [] d = 6 -> "6" [] d = 7 -> "7"
              [] d = 8 -> "8" [] OTHER -> "9"

\* fmt's %d of a non-negative int: its decimal digits.
RECURSIVE FmtInt(_)
FmtInt(i) == IF i < 10 THEN <<Digit(i)>> ELSE FmtInt(i \div 10) \o <<Digit(i % 10)>>

\* fmt's %d of a string operand: the bad-verb form %!d(string=<s>).
FmtBadVerbD(s) == <<"%!d(string=">> \o s \o <<")">>

\* strings.LastIndex(s, "_"), 1-based; 0 when there is none (Go's -1).
LastIndex(s) ==
    LET hits == {j \in 1..Len(s) : s[j] = "_"}
    IN  IF hits = {} THEN 0 ELSE CHOOSE j \in hits : \A h \in hits : h <= j

getRawNodeKey(nodeID, index) == FmtBadVerbD(nodeID) \o <<"_">> \o FmtInt(index)

getNodeID(rawNodeKey) == SubSeq(rawNodeKey, 1, LastIndex(rawNodeKey) - 1)

\* The weight with its ceiling only: a weight of 0 or less is kept.
getValidWeight_noFloor(weight) == IF weight >= 10 THEN 10 ELSE weight

getValidWeight(weight) ==
    IF weight <= 0 THEN 1 ELSE IF weight >= 10 THEN 10 ELSE weight

incrScore(score) == IF score = MaxInt32 - 1 THEN 0 ELSE score + 1

decrScore(score) == IF score = 0 THEN MaxInt32 - 1 ELSE score - 1

\* ------------------------------------------------------------ encryptor
\* The strings one behaviour hashes: every virtual-node key and every data key.
MaxReplicas == 2 * replicaScale
RawNodeKeys == {getRawNodeKey(n, i) : n \in NodeIDs, i \in 0..(MaxReplicas - 1)}

\* An Encryptor maps a string to a position in [0, MaxInt32).  The positions
\* below are the injected Encryptor's; each table is one deterministic hasher.
EncTable(a0, a1, b0, b1, c0, c1, k1, k2) ==
    [s \in RawNodeKeys \cup KeySet |->
        CASE s = getRawNodeKey(<<"A">>, 0) -> a0
          [] s = getRawNodeKey(<<"A">>, 1) -> a1
          [] s = getRawNodeKey(<<"B">>, 0) -> b0
          [] s = getRawNodeKey(<<"B">>, 1) -> b1
          [] s = getRawNodeKey(<<"C">>, 0) -> c0
          [] s = getRawNodeKey(<<"C">>, 1) -> c1
          [] s = <<"k1">> -> k1
          [] OTHER -> k2]

\* Every virtual node at a position of its own, the ends of the ring included.
EncSpread == EncTable(5, 2000, MaxInt32 - 1, 1000, 100, 0, 50, MaxInt32 - 1)
\* Virtual nodes that collide: buckets of two, and a key on a bucket's position.
EncShared == EncTable(5, 100, 5, 0, 100, MaxInt32 - 1, 100, 3)

Encryptors == {EncSpread, EncShared}

\* The most virtual nodes AddNode gives one node: getValidWeight's ceiling, scaled.
WideReplicas == getValidWeight(MaxInt32) * replicaScale
WideNodes == {<<"A">>, <<"B">>}

\* A hasher for nodes of every weight: the virtual nodes of A and of B alternate
\* around the ring, and k1 lies between the first of A and the first of B.
WidePos(n, i) == (IF n = <<"A">> THEN 10 ELSE 60) + 100 * i
EncWide ==
    [s \in {getRawNodeKey(n, i) : n \in WideNodes, i \in 0..(WideReplicas - 1)} \cup KeySet |->
        IF s \in KeySet THEN 50
        ELSE CHOOSE h \in 0..(100 * WideReplicas) :
                \E n \in WideNodes, i \in 0..(WideReplicas - 1) :
                    s = getRawNodeKey(n, i) /\ h = WidePos(n, i)]

\* A node id that reads as getNodeID reads the virtual nodes of the node A.
Alias == FmtBadVerbD(<<"A">>)

\* A hasher under which the first virtual node of A and both of Alias collide
\* at 7, with the second virtual node of A at a1 and every data key at 3.
EncAlias(a1) ==
    [s \in {getRawNodeKey(n, i) : n \in {<<"A">>, Alias}, i \in 0..1} \cup KeySet |->
        IF s \in KeySet THEN 3
        ELSE IF s = getRawNodeKey(<<"A">>, 1) THEN a1 ELSE 7]

\* ------------------------------------------------------------ redis client
\* The Redis data of one ring, with the fault injection of one handler step:
\*   zset : the sorted set (member, score) of the ring table
\*   hash : the replica hash  nodeID -> count
\*   str  : the per-node data-key strings  nodeID -> set of keys (a JSON object)
\*   n    : client calls made so far in this step;  f : the call that fails (0: none)
Reply(st, err, val) == [st |-> st, err |-> err, val |-> val]

Nil == "nil"
ErrTransport == "transport error"
ErrScoreNotExist == "score not exist"
ErrNil == "redigo: nil returned"
ErrUnknownCommand == "ERR unknown command"

\* The commands a Redis server knows, of those the client sends.
RedisCommands == {"ZADD", "ZRANGE", "ZREMRANGEBYSCORE", "HSET", "HGETALL",
                  "HDEL", "SET", "GET", "DEL", "EVAL"}

Tick(st) == [st EXCEPT !.n = @ + 1]
Broken(st) == st.n + 1 = st.f

\* The entities of a set of (member, score) pairs in score order.
RECURSIVE SortByScore(_)
SortByScore(es) ==
    IF es = {} THEN <<>>
    ELSE LET e == CHOOSE x \in es : \A y \in es : x[2] <= y[2]
         IN  <<e>> \o SortByScore(es \ {e})

ZAdd(st, score, value) ==
    IF Broken(st) THEN Reply(Tick(st), ErrTransport, Nil)
    ELSE Reply([Tick(st) EXCEPT !.zset =
                    {e \in @ : e[1] # value} \cup {<<value, score>>}], Nil, Nil)

ZRangeByScore(st, score1, score2) ==
    IF Broken(st) THEN Reply(Tick(st), ErrTransport, <<>>)
    ELSE Reply(Tick(st), Nil,
               SortByScore({e \in st.zset : score1 <= e[2] /\ e[2] <= score2}))

\* One reply of at most one entity for a ZRANGE ... LIMIT 0 1 command.
FirstEntity(st, cmd, es, least) ==
    IF Broken(st) THEN Reply(Tick(st), ErrTransport, Nil)
    ELSE IF cmd \notin RedisCommands THEN Reply(Tick(st), ErrUnknownCommand, Nil)
    ELSE IF es = {} THEN Reply(Tick(st), ErrScoreNotExist, Nil)
    ELSE Reply(Tick(st), Nil,
               CHOOSE x \in es : \A y \in es :
                   IF least THEN x[2] <= y[2] ELSE x[2] >= y[2])

ClientCeiling(st, score) ==
    FirstEntity(st, "ZANGE", {e \in st.zset : e[2] >= score}, TRUE)

ClientFloor(st, score) ==
    FirstEntity(st, "ZRANGE", {e \in st.zset : e[2] <= score}, FALSE)

FirstOrLast(st, first) == FirstEntity(st, "ZRANGE", st.zset, first)

ZRem(st, score) ==
    IF Broken(st) THEN Reply(Tick(st), ErrTransport, Nil)
    ELSE Reply([Tick(st) EXCEPT !.zset = {e \in @ : e[2] # score}], Nil, Nil)

HSet(st, key, val) ==
    IF Broken(st) THEN Reply(Tick(st), ErrTransport, Nil)
    ELSE Reply([Tick(st) EXCEPT !.hash =
                    [k \in DOMAIN @ \cup {key} |-> IF k = key THEN val ELSE @[k]]],
               Nil, Nil)

HGetAll(st) ==
    IF Broken(st) THEN Reply(Tick(st), ErrTransport, Nil)
    ELSE Reply(Tick(st), Nil, st.hash)

HDel(st, key) ==
    IF Broken(st) THEN Reply(Tick(st), ErrTransport, Nil)
    ELSE Reply([Tick(st) EXCEPT !.hash = [k \in DOMAIN @ \ {key} |-> @[k]]],
               Nil, Nil)

Set(st, key, val) ==
    IF Broken(st) THEN Reply(Tick(st), ErrTransport, Nil)
    ELSE Reply([Tick(st) EXCEPT !.str =
                    [k \in DOMAIN @ \cup {key} |-> IF k = key THEN val ELSE @[k]]],
               Nil, Nil)

Get(st, key) ==
    IF Broken(st) THEN Reply(Tick(st), ErrTransport, Nil)
    ELSE IF key \in DOMAIN st.str THEN Reply(Tick(st), Nil, st.str[key])
    ELSE Reply(Tick(st), ErrNil, Nil)

Del(st, key) ==
    IF Broken(st) THEN Reply(Tick(st), ErrTransport, Nil)
    ELSE Reply([Tick(st) EXCEPT !.str = [k \in DOMAIN @ \ {key} |-> @[k]]],
               Nil, Nil)

\* ------------------------------------------------------------ RedisHashRing
\* json.Marshal / json.Unmarshal of a []string bucket keep the list and its
\* order; a bucket's zset member is written here as the list itself.  The
\* map[string]struct{} of a node's data keys is written as the set of its keys.
ErrScoreLen == "invalid score entity len"

\* Add that puts the new member at the head of the list.
Redis_Add_atHead(st, score, nodeID) ==
    LET r1 == ZRangeByScore(st, score, score) IN
    IF r1.err # Nil THEN Reply(r1.st, r1.err, Nil)
    ELSE IF Len(r1.val) > 1 THEN Reply(r1.st, ErrScoreLen, Nil)
    ELSE LET nodeIDs == IF Len(r1.val) = 1 THEN r1.val[1][1] ELSE <<>>
             present == \E j \in 1..Len(nodeIDs) : nodeIDs[j] = nodeID
             r2 == IF Len(r1.val) = 1 THEN ZRem(r1.st, r1.val[1][2])
                   ELSE Reply(r1.st, Nil, Nil)
         IN  IF present THEN Reply(r1.st, Nil, Nil)
             ELSE IF r2.err # Nil THEN Reply(r2.st, r2.err, Nil)
             ELSE ZAdd(r2.st, score, <<nodeID>> \o nodeIDs)

Redis_Add(st, score, nodeID) ==
    LET r1 == ZRangeByScore(st, score, score) IN
    IF r1.err # Nil THEN Reply(r1.st, r1.err, Nil)
    ELSE IF Len(r1.val) > 1 THEN Reply(r1.st, ErrScoreLen, Nil)
    ELSE LET nodeIDs == IF Len(r1.val) = 1 THEN r1.val[1][1] ELSE <<>>
             present == \E j \in 1..Len(nodeIDs) : nodeIDs[j] = nodeID
             r2 == IF Len(r1.val) = 1 THEN ZRem(r1.st, r1.val[1][2])
                   ELSE Reply(r1.st, Nil, Nil)
         IN  IF present THEN Reply(r1.st, Nil, Nil)
             ELSE IF r2.err # Nil THEN Reply(r2.st, r2.err, Nil)
             ELSE ZAdd(r2.st, score, Append(nodeIDs, nodeID))

\* nodeIDs without its first occurrence of nodeID.
RemoveAt(nodeIDs, index) ==
    SubSeq(nodeIDs, 1, index - 1) \o SubSeq(nodeIDs, index + 1, Len(nodeIDs))

\* Rem that writes the list back whatever is left of it.
Redis_Rem_keepEmpty(st, score, nodeID) ==
    LET r1 == ZRangeByScore(st, score, score) IN
    IF r1.err # Nil THEN Reply(r1.st, r1.err, Nil)
    ELSE IF Len(r1.val) # 1 THEN Reply(r1.st, ErrScoreLen, Nil)
    ELSE LET nodeIDs == r1.val[1][1]
             hits == {j \in 1..Len(nodeIDs) : nodeIDs[j] = nodeID}
         IN  IF hits = {} THEN Reply(r1.st, Nil, Nil)
             ELSE LET index == CHOOSE j \in hits : \A h \in hits : j <= h
                      r2 == ZRem(r1.st, r1.val[1][2])
                      rest == RemoveAt(nodeIDs, index)
                  IN  IF r2.err # Nil THEN Reply(r2.st, r2.err, Nil)
                      ELSE ZAdd(r2.st, r1.val[1][2], rest)

Redis_Rem(st, score, nodeID) ==
    LET r1 == ZRangeByScore(st, score, score) IN
    IF r1.err # Nil THEN Reply(r1.st, r1.err, Nil)
    ELSE IF Len(r1.val) # 1 THEN Reply(r1.st, ErrScoreLen, Nil)
    ELSE LET nodeIDs == r1.val[1][1]
             hits == {j \in 1..Len(nodeIDs) : nodeIDs[j] = nodeID}
         IN  IF hits = {} THEN Reply(r1.st, Nil, Nil)
             ELSE LET index == CHOOSE j \in hits : \A h \in hits : j <= h
                      r2 == ZRem(r1.st, r1.val[1][2])
                      rest == RemoveAt(nodeIDs, index)
                  IN  IF r2.err # Nil THEN Reply(r2.st, r2.err, Nil)
                      ELSE IF Len(rest) = 0 THEN Reply(r2.st, Nil, Nil)
                      ELSE ZAdd(r2.st, r1.val[1][2], rest)

Redis_Ceiling(st, score) ==
    LET r1 == ClientCeiling(st, score) IN
    IF r1.err # Nil /\ r1.err # ErrScoreNotExist THEN Reply(r1.st, r1.err, 0)
    ELSE IF r1.err = Nil THEN Reply(r1.st, Nil, r1.val[2])
    ELSE LET r2 == FirstOrLast(r1.st, TRUE)
         IN  IF r2.err # Nil THEN Reply(r2.st, r2.err, 0)
             ELSE Reply(r2.st, Nil, r2.val[2])

Redis_Floor(st, score) ==
    LET r1 == ClientFloor(st, score) IN
    IF r1.err # Nil /\ r1.err # ErrScoreNotExist THEN Reply(r1.st, r1.err, 0)
    ELSE IF r1.err = Nil THEN Reply(r1.st, Nil, r1.val[2])
    ELSE LET r2 == FirstOrLast(r1.st, FALSE)
         IN  IF r2.err # Nil /\ r2.err # ErrScoreNotExist THEN Reply(r2.st, r2.err, 0)
             ELSE IF r2.err = Nil THEN Reply(r2.st, Nil, r2.val[2])
             ELSE Reply(r2.st, Nil, -1)

Redis_Node(st, score) ==
    LET r1 == ZRangeByScore(st, score, score) IN
    IF r1.err # Nil THEN Reply(r1.st, r1.err, <<>>)
    ELSE IF Len(r1.val) # 1 THEN Reply(r1.st, ErrScoreLen, <<>>)
    ELSE Reply(r1.st, Nil, r1.val[1][1])

Redis_Nodes(st) == HGetAll(st)

Redis_AddNodeToReplica(st, nodeID, replicas) == HSet(st, nodeID, replicas)

Redis_DeleteNodeToReplica(st, nodeID) == HDel(st, nodeID)

Redis_DataKeys(st, nodeID) ==
    LET r1 == Get(st, nodeID) IN
    IF r1.err # Nil /\ r1.err # ErrNil THEN Reply(r1.st, r1.err, {})
    ELSE Reply(r1.st, Nil, IF r1.err = Nil THEN r1.val ELSE {})

Redis_AddNodeToDataKeys(st, nodeID, dataKeys) ==
    LET r1 == Get(st, nodeID) IN
    IF r1.err # Nil /\ r1.err # ErrNil THEN Reply(r1.st, r1.err, Nil)
    ELSE LET oldDataKeys == IF r1.err = Nil THEN r1.val ELSE {}
         IN  Set(r1.st, nodeID, oldDataKeys \cup dataKeys)

Redis_DeleteNodeToDataKeys(st, nodeID, dataKeys) ==
    LET r1 == Get(st, nodeID) IN
    IF r1.err # Nil THEN Reply(r1.st, r1.err, Nil)
    ELSE LET oldDataKeys == r1.val \ dataKeys
         IN  IF oldDataKeys = {} THEN Del(r1.st, nodeID)
             ELSE Set(r1.st, nodeID, oldDataKeys)

\* ------------------------------------------------------------ HashRing contract
\* A HashRing that does what the interface promises the router (the operations
\* table of the store): the store NewConsistentHash is given when it is not the
\* RedisHashRing.  It keeps its data in the same three structures.
ErrNoBucket == "no bucket at score"

Bucket(st, score) ==
    LET es == {e \in st.zset : e[2] = score}
    IN  IF es = {} THEN <<>> ELSE (CHOOSE e \in es : TRUE)[1]

Scores(st) == {e[2] : e \in st.zset}

Least(S) == CHOOSE x \in S : \A y \in S : x <= y
Greatest(S) == CHOOSE x \in S : \A y \in S : x >= y

PutBucket(st, score, list) ==
    [st EXCEPT !.zset = {e \in @ : e[2] # score} \cup
                        (IF list = <<>> THEN {} ELSE {<<list, score>>})]

Mem_Add(st, score, nodeKey) ==
    IF Broken(st) THEN Reply(Tick(st), ErrTransport, Nil)
    ELSE LET list == Bucket(st, score)
         IN  IF \E j \in 1..Len(list) : list[j] = nodeKey
             THEN Reply(Tick(st), Nil, Nil)
             ELSE Reply(PutBucket(Tick(st), score, Append(list, nodeKey)), Nil, Nil)

Mem_Rem(st, score, nodeKey) ==
    IF Broken(st) THEN Reply(Tick(st), ErrTransport, Nil)
    ELSE LET list == Bucket(st, score)
         IN  Reply(PutBucket(Tick(st), score,
                             SelectSeq(list, LAMBDA x : x # nodeKey)), Nil, Nil)

Mem_Ceiling(st, score) ==
    IF Broken(st) THEN Reply(Tick(st), ErrTransport, 0)
    ELSE LET up == {x \in Scores(st) : x >= score}
         IN  Reply(Tick(st), Nil,
                   IF Scores(st) = {} THEN -1
                   ELSE IF up = {} THEN Least(Scores(st)) ELSE Least(up))

Mem_Floor(st, score) ==
    IF Broken(st) THEN Reply(Tick(st), ErrTransport, 0)
    ELSE LET down == {x \in Scores(st) : x <= score}
         IN  Reply(Tick(st), Nil,
                   IF Scores(st) = {} THEN -1
                   ELSE IF down = {} THEN Greatest(Scores(st)) ELSE Greatest(down))

Mem_Node(st, score) ==
    IF Broken(st) THEN Reply(Tick(st), ErrTransport, <<>>)
    ELSE IF Bucket(st, score) = <<>> THEN Reply(Tick(st), ErrNoBucket, <<>>)
    ELSE Reply(Tick(st), Nil, Bucket(st, score))

Mem_Nodes(st) == HGetAll(st)

Mem_AddNodeToReplica(st, nodeID, replicas) == HSet(st, nodeID, replicas)

Mem_DeleteNodeToReplica(st, nodeID) == HDel(st, nodeID)

Mem_DataKeys(st, nodeID) ==
    IF Broken(st) THEN Reply(Tick(st), ErrTransport, {})
    ELSE Reply(Tick(st), Nil, IF nodeID \in DOMAIN st.str THEN st.str[nodeID] ELSE {})

Mem_AddNodeToDataKeys(st, nodeID, dataKeys) ==
    LET old == IF nodeID \in DOMAIN st.str THEN st.str[nodeID] ELSE {}
    IN  Set(st, nodeID, old \cup dataKeys)

Mem_DeleteNodeToDataKeys(st, nodeID, dataKeys) ==
    LET old == IF nodeID \in DOMAIN st.str THEN st.str[nodeID] ELSE {}
    IN  IF old \ dataKeys = {} THEN Del(st, nodeID)
        ELSE Set(st, nodeID, old \ dataKeys)

\* ------------------------------------------------------------ HashRing
\* The router calls its store through the HashRing interface; st.impl names
\* the implementation that was injected.
IsRedis(st) == st.impl = "RedisHashRing"

Ring_Add(st, score, nodeKey) ==
    IF IsRedis(st) THEN Redis_Add(st, score, nodeKey) ELSE Mem_Add(st, score, nodeKey)
Ring_Rem(st, score, nodeKey) ==
    IF IsRedis(st) THEN Redis_Rem(st, score, nodeKey) ELSE Mem_Rem(st, score, nodeKey)
Ring_Ceiling(st, score) ==
    IF IsRedis(st) THEN Redis_Ceiling(st, score) ELSE Mem_Ceiling(st, score)
Ring_Floor(st, score) ==
    IF IsRedis(st) THEN Redis_Floor(st, score) ELSE Mem_Floor(st, score)
Ring_Node(st, score) ==
    IF IsRedis(st) THEN Redis_Node(st, score) ELSE Mem_Node(st, score)
Ring_Nodes(st) ==
    IF IsRedis(st) THEN Redis_Nodes(st) ELSE Mem_Nodes(st)
Ring_AddNodeToReplica(st, nodeID, replicas) ==
    IF IsRedis(st) THEN Redis_AddNodeToReplica(st, nodeID, replicas)
    ELSE Mem_AddNodeToReplica(st, nodeID, replicas)
Ring_DeleteNodeToReplica(st, nodeID) ==
    IF IsRedis(st) THEN Redis_DeleteNodeToReplica(st, nodeID)
    ELSE Mem_DeleteNodeToReplica(st, nodeID)
Ring_DataKeys(st, nodeID) ==
    IF IsRedis(st) THEN Redis_DataKeys(st, nodeID) ELSE Mem_DataKeys(st, nodeID)
Ring_AddNodeToDataKeys(st, nodeID, dataKeys) ==
    IF IsRedis(st) THEN Redis_AddNodeToDataKeys(st, nodeID, dataKeys)
    ELSE Mem_AddNodeToDataKeys(st, nodeID, dataKeys)
Ring_DeleteNodeToDataKeys(st, nodeID, dataKeys) ==
    IF IsRedis(st) THEN Redis_DeleteNodeToDataKeys(st, nodeID, dataKeys)
    ELSE Mem_DeleteNodeToDataKeys(st, nodeID, dataKeys)

\* ------------------------------------------------------------ planner
\* r := <call>; <rest>: the rest of a function body, run on the call's reply.
Then(r, Rest(_)) == Rest(r)

\* What migrateIn / migrateOut hand back, with the store as they left it.
Plan(st, err, from, to, datas) ==
    [st |-> st, err |-> err, from |-> from, to |-> to, datas |-> datas]

ErrNoOtherNo == "no other no"
ErrNoOtherNode == "no other node"
ErrNextNodeEmpty == "next node empty"

\* The keys of dataKeys that migrateIn's loop selects.
migrateInDatas(enc, dataKeys, lastScore, virtualScore, patternOne, patternTwo) ==
    {dataKey \in dataKeys :
        LET h  == enc[dataKey]
            d1 == IF patternOne /\ h > lastScore + MaxInt32 THEN h - MaxInt32 ELSE h
            d2 == IF patternTwo THEN d1 - MaxInt32 ELSE d1
        IN  ~(d2 <= lastScore \/ d2 > virtualScore)}

\* lastScore and virtualScore after the two wrap patterns shifted them.
ShiftLast(lastScore, virtualScore, nextScore) ==
    (IF lastScore > virtualScore THEN lastScore - MaxInt32 ELSE lastScore)
      - (IF nextScore < virtualScore THEN MaxInt32 ELSE 0)

ShiftCur(virtualScore, nextScore) ==
    IF nextScore < virtualScore THEN virtualScore - MaxInt32 ELSE virtualScore

migrateIn(st, enc, hasMigrator, virtualScore, nodeID) ==
    IF ~hasMigrator THEN Plan(st, Nil, NoStr, NoStr, {})
    ELSE
    Then(Ring_Node(st, virtualScore), LAMBDA r1 :
    IF r1.err # Nil THEN Plan(r1.st, r1.err, NoStr, NoStr, {})
    ELSE IF Len(r1.val) > 1 THEN Plan(r1.st, Nil, NoStr, NoStr, {})
    ELSE
    Then(Ring_Floor(r1.st, decrScore(virtualScore)), LAMBDA r2 :
    IF r2.err # Nil THEN Plan(r2.st, r2.err, NoStr, NoStr, {})
    ELSE IF r2.val = -1 \/ r2.val = virtualScore THEN Plan(r2.st, Nil, NoStr, NoStr, {})
    ELSE
    Then(Ring_Ceiling(r2.st, incrScore(virtualScore)), LAMBDA r3 :
    IF r3.err # Nil THEN Plan(r3.st, r3.err, NoStr, NoStr, {})
    ELSE IF r3.val = -1 \/ r3.val = virtualScore THEN Plan(r3.st, Nil, NoStr, NoStr, {})
    ELSE
    Then(Ring_Node(r3.st, r3.val), LAMBDA r4 :
    IF r4.err # Nil THEN Plan(r4.st, r4.err, NoStr, NoStr, {})
    ELSE IF Len(r4.val) = 0 THEN Plan(r4.st, Nil, NoStr, NoStr, {})
    ELSE
    \* the error of DataKeys is overwritten unread; its key set is then empty
    Then(Ring_DataKeys(r4.st, getNodeID(r4.val[1])), LAMBDA r5 :
    Then(migrateInDatas(enc, r5.val, ShiftLast(r2.val, virtualScore, r3.val),
                        ShiftCur(virtualScore, r3.val),
                        r2.val > virtualScore, r3.val < virtualScore), LAMBDA datas :
    Then(Ring_DeleteNodeToDataKeys(r5.st, getNodeID(r4.val[1]), datas), LAMBDA r6 :
    IF r6.err # Nil THEN Plan(r6.st, r6.err, NoStr, NoStr, {})
    ELSE
    Then(Ring_AddNodeToDataKeys(r6.st, nodeID, datas), LAMBDA r7 :
    IF r7.err # Nil THEN Plan(r7.st, r7.err, NoStr, NoStr, {})
    ELSE Plan(r7.st, Nil, getNodeID(r4.val[1]), nodeID, datas)))))))))

\* ranged holds the scores already walked from.
RECURSIVE getvaildNextNode(_, _, _, _)
\* The walk that answers the node it was asked to avoid when it comes round.
getvaildNextNode_backToSelf(st, score, nodeID, ranged) ==
    Then(Ring_Ceiling(st, incrScore(score)), LAMBDA r1 :
    IF r1.err # Nil THEN Reply(r1.st, r1.err, NoStr)
    ELSE IF r1.val = -1 THEN Reply(r1.st, Nil, NoStr)
    ELSE IF r1.val \in ranged THEN Reply(r1.st, Nil, nodeID)
    ELSE
    Then(Ring_Node(r1.st, r1.val), LAMBDA r2 :
    IF r2.err # Nil THEN Reply(r2.st, r2.err, NoStr)
    ELSE IF Len(r2.val) = 0 THEN Reply(r2.st, ErrNextNodeEmpty, NoStr)
    ELSE IF getNodeID(r2.val[1]) # nodeID THEN Reply(r2.st, Nil, getNodeID(r2.val[1]))
    ELSE IF Len(r2.val) > 1 THEN Reply(r2.st, Nil, getNodeID(r2.val[2]))
    ELSE getvaildNextNode(r2.st, r1.val, nodeID, ranged \cup {score})))

getvaildNextNode(st, score, nodeID, ranged) ==
    Then(Ring_Ceiling(st, incrScore(score)), LAMBDA r1 :
    IF r1.err # Nil THEN Reply(r1.st, r1.err, NoStr)
    ELSE IF r1.val = -1 THEN Reply(r1.st, Nil, NoStr)
    ELSE IF r1.val \in ranged THEN Reply(r1.st, Nil, NoStr)
    ELSE
    Then(Ring_Node(r1.st, r1.val), LAMBDA r2 :
    IF r2.err # Nil THEN Reply(r2.st, r2.err, NoStr)
    ELSE IF Len(r2.val) = 0 THEN Reply(r2.st, ErrNextNodeEmpty, NoStr)
    ELSE IF getNodeID(r2.val[1]) # nodeID THEN Reply(r2.st, Nil, getNodeID(r2.val[1]))
    ELSE IF Len(r2.val) > 1 THEN Reply(r2.st, Nil, getNodeID(r2.val[2]))
    ELSE getvaildNextNode(r2.st, r1.val, nodeID, ranged \cup {score})))

\* The keys of allDatas that migrateOut's loop selects.
migrateOutDatas(enc, allDatas, lastScore, virtualScore, onlyScore, patten) ==
    {data \in allDatas :
        \/ onlyScore
        \/ LET h == enc[data]
               d == IF patten /\ h > lastScore + MaxInt32 THEN h - MaxInt32 ELSE h
           IN  ~(d <= lastScore \/ d > virtualScore)}

\* migrateOut's deferred function: the ownership rewrite on the way out.
migrateOutDefer(pl, nodeID) ==
    IF pl.err # Nil THEN pl
    ELSE IF pl.to = NoStr \/ pl.datas = {} THEN pl
    ELSE
    Then(Ring_DeleteNodeToDataKeys(pl.st, nodeID, pl.datas), LAMBDA r1 :
    IF r1.err # Nil THEN [pl EXCEPT !.st = r1.st, !.err = r1.err]
    ELSE
    Then(Ring_AddNodeToDataKeys(r1.st, pl.to, pl.datas), LAMBDA r2 :
    [pl EXCEPT !.st = r2.st, !.err = r2.err]))

\* migrateOut from `from = nodeID` to its return, before the deferred function.
migrateOutBody(st, enc, virtualScore, nodeID) ==
    \* the error of Node is held in _err and never read: nodes is then empty
    Then(Ring_Node(st, virtualScore), LAMBDA r1 :
    IF Len(r1.val) = 0 THEN Plan(r1.st, Nil, nodeID, NoStr, {})
    ELSE IF getNodeID(r1.val[1]) # nodeID THEN Plan(r1.st, Nil, nodeID, NoStr, {})
    ELSE
    Then(Ring_DataKeys(r1.st, nodeID), LAMBDA r2 :
    IF r2.err # Nil THEN Plan(r2.st, r2.err, nodeID, NoStr, {})
    ELSE IF r2.val = {} THEN Plan(r2.st, Nil, nodeID, NoStr, {})
    ELSE
    Then(Ring_Floor(r2.st, decrScore(virtualScore)), LAMBDA r3 :
    IF r3.err # Nil THEN Plan(r3.st, r3.err, nodeID, NoStr, {})
    ELSE IF (r3.val = -1 \/ r3.val = virtualScore) /\ Len(r1.val) = 1
    THEN Plan(r3.st, ErrNoOtherNo, nodeID, NoStr, {})
    ELSE
    Then(migrateOutDatas(enc, r2.val,
                         IF r3.val > virtualScore THEN r3.val - MaxInt32 ELSE r3.val,
                         virtualScore,
                         r3.val = -1 \/ r3.val = virtualScore,
                         r3.val > virtualScore), LAMBDA datas :
    IF Len(r1.val) > 1 THEN Plan(r3.st, Nil, nodeID, getNodeID(r1.val[2]), datas)
    ELSE
    Then(getvaildNextNode(r3.st, virtualScore, nodeID, {}), LAMBDA r4 :
    \* on an error of the walk, err is set to Floor's _err, which is nil here
    IF r4.err # Nil THEN Plan(r4.st, Nil, nodeID, NoStr, datas)
    ELSE IF r4.val = NoStr THEN Plan(r4.st, ErrNoOtherNode, nodeID, NoStr, datas)
    ELSE Plan(r4.st, Nil, nodeID, r4.val, datas))))))

migrateOut(st, enc, hasMigrator, virtualScore, nodeID) ==
    IF ~hasMigrator THEN Plan(st, Nil, NoStr, NoStr, {})
    ELSE migrateOutDefer(migrateOutBody(st, enc, virtualScore, nodeID), nodeID)

\* ------------------------------------------------------------ router core
ErrRepeatNode == "repeat node"
ErrInvalidNodeID == "invalid node id"
ErrNoNodeAvailable == "no node available"
ErrEmptyScore == "no node available with empty score"

\* AddNode without the look-up of the node among the replicas.
AddNodeHead_noCheck(st, nodeID, weight) ==
    Then(Ring_Nodes(st), LAMBDA r1 :
    IF r1.err # Nil THEN Reply(r1.st, r1.err, 0)
    ELSE
    Then(Ring_AddNodeToReplica(r1.st, nodeID, getValidWeight(weight) * replicaScale),
         LAMBDA r2 : Reply(r2.st, r2.err, getValidWeight(weight) * replicaScale)))

\* AddNode from the duplicate check to AddNodeToReplica; val is replicas.
AddNodeHead(st, nodeID, weight) ==
    Then(Ring_Nodes(st), LAMBDA r1 :
    IF r1.err # Nil THEN Reply(r1.st, r1.err, 0)
    ELSE IF nodeID \in DOMAIN r1.val THEN Reply(r1.st, ErrRepeatNode, 0)
    ELSE
    Then(Ring_AddNodeToReplica(r1.st, nodeID, getValidWeight(weight) * replicaScale),
         LAMBDA r2 : Reply(r2.st, r2.err, getValidWeight(weight) * replicaScale)))

\* One turn of AddNode's loop: the virtual node i enters the ring and is planned.
AddNodeIter(st, enc, hasMigrator, nodeID, i) ==
    Then(Ring_Add(st, enc[getRawNodeKey(nodeID, i)], getRawNodeKey(nodeID, i)),
         LAMBDA r1 :
    IF r1.err # Nil THEN Plan(r1.st, r1.err, NoStr, NoStr, {})
    ELSE migrateIn(r1.st, enc, hasMigrator, enc[getRawNodeKey(nodeID, i)], nodeID))

\* RemoveNode without the look-up of the node: an absent node has no replicas.
RemoveNodeHead_noCheck(st, nodeID) ==
    Then(Ring_Nodes(st), LAMBDA r1 :
    IF r1.err # Nil THEN Reply(r1.st, r1.err, 0)
    ELSE
    Then(Ring_DeleteNodeToReplica(r1.st, nodeID), LAMBDA r2 :
    Reply(r2.st, r2.err, IF nodeID \in DOMAIN r1.val THEN r1.val[nodeID] ELSE 0)))

\* RemoveNode from the existence check to DeleteNodeToReplica; val is replicas.
RemoveNodeHead(st, nodeID) ==
    Then(Ring_Nodes(st), LAMBDA r1 :
    IF r1.err # Nil THEN Reply(r1.st, r1.err, 0)
    ELSE IF nodeID \notin DOMAIN r1.val THEN Reply(r1.st, ErrInvalidNodeID, 0)
    ELSE
    Then(Ring_DeleteNodeToReplica(r1.st, nodeID), LAMBDA r2 :
    Reply(r2.st, r2.err, r1.val[nodeID])))

\* One turn of RemoveNode's loop: the virtual node i is planned and leaves the ring.
RemoveNodeIter(st, enc, hasMigrator, nodeID, i) ==
    Then(enc[FmtBadVerbD(nodeID) \o <<"_">> \o FmtInt(i)], LAMBDA virtualScore :
    Then(migrateOut(st, enc, hasMigrator, virtualScore, nodeID), LAMBDA m :
    IF m.err # Nil THEN m
    ELSE
    Then(Ring_Rem(m.st, virtualScore, getRawNodeKey(nodeID, i)), LAMBDA r1 :
    IF r1.err # Nil THEN Plan(r1.st, r1.err, NoStr, NoStr, {})
    ELSE [m EXCEPT !.st = r1.st])))

\* GetNode that passes over a head which already owns data keys.
GetNodeBody_byLoad(st, enc, dataKey) ==
    Then(Ring_Ceiling(st, enc[dataKey]), LAMBDA r1 :
    IF r1.err # Nil THEN Reply(r1.st, r1.err, NoStr)
    ELSE IF r1.val = -1 THEN Reply(r1.st, ErrNoNodeAvailable, NoStr)
    ELSE
    Then(Ring_Node(r1.st, r1.val), LAMBDA r2 :
    IF r2.err # Nil THEN Reply(r2.st, r2.err, NoStr)
    ELSE IF Len(r2.val) = 0 THEN Reply(r2.st, ErrEmptyScore, NoStr)
    ELSE
    Then(Ring_DataKeys(r2.st, getNodeID(r2.val[1])), LAMBDA d :
    Then(IF d.err = Nil /\ d.val # {} THEN r2.val[Len(r2.val)] ELSE r2.val[1],
         LAMBDA node :
    Then(Ring_AddNodeToDataKeys(d.st, getNodeID(node), {dataKey}), LAMBDA r3 :
    IF r3.err # Nil THEN Reply(r3.st, r3.err, NoStr)
    ELSE Reply(r3.st, Nil, node))))))

\* GetNode between Lock and the deferred Unlock; val is the node it returns.
GetNodeBody(st, enc, dataKey) ==
    Then(Ring_Ceiling(st, enc[dataKey]), LAMBDA r1 :
    IF r1.err # Nil THEN Reply(r1.st, r1.err, NoStr)
    ELSE IF r1.val = -1 THEN Reply(r1.st, ErrNoNodeAvailable, NoStr)
    ELSE
    Then(Ring_Node(r1.st, r1.val), LAMBDA r2 :
    IF r2.err # Nil THEN Reply(r2.st, r2.err, NoStr)
    ELSE IF Len(r2.val) = 0 THEN Reply(r2.st, ErrEmptyScore, NoStr)
    ELSE
    Then(Ring_AddNodeToDataKeys(r2.st, getNodeID(r2.val[1]), {dataKey}), LAMBDA r3 :
    IF r3.err # Nil THEN Reply(r3.st, r3.err, NoStr)
    ELSE Reply(r3.st, Nil, r2.val[1]))))

\* ------------------------------------------------------------ state
VARIABLES
    hashRing,   \* the HashRing given to NewConsistentHash
    migrator,   \* TRUE when a Migrator was given, FALSE when it is nil
    encryptor,  \* the Encryptor given to NewConsistentHash
    flaky,      \* TRUE when the connection to the store may fail a call
    zset, hash, str,   \* the store: ring table, replica hash, data-key strings
    lock,       \* the ring lock key: its holder's token, or Free
    pc,         \* where each caller's invocation stands
    inv,        \* each caller's invocation: operation, arguments, loop locals
    tasks,      \* each caller's migrateTasks, with every task's progress
    ops, faults,\* invocations started; store calls failed
    snap,       \* history: the store as each caller found it when it took the lock
    last,       \* history: the successful AddNode that returned last, and the store before it
    failed,     \* history: the topology change that returned an error last, the store changed
    resolved,   \* history: the data keys GetNode has returned a node for
    expired     \* history: the callers whose lock key ran out of its TTL under them

vars == <<hashRing, migrator, encryptor, flaky, zset, hash, str, lock, pc, inv, tasks,
          ops, faults, snap, last, failed, resolved, expired>>

config == <<hashRing, migrator, encryptor, flaky>>
store == <<zset, hash, str>>
history == <<snap, last, failed, resolved, expired>>

Free == "free"
NoInv == [op |-> "none", arg |-> NoStr, weight |-> 0, i |-> 0, replicas |-> 0,
          err |-> Nil, val |-> NoStr]
NoStrs == [k \in {} |-> {}]
NoSnap == [zset |-> {}, hash |-> [k \in {} |-> 0], str |-> NoStrs, faults |-> 0]
NoLast == [arg |-> NoStr, before |-> NoSnap]
NoFailed == [op |-> "none", arg |-> NoStr, weight |-> 0]

\* The most client calls one step of a handler makes.
MaxCalls == 16

Store(f) == [impl |-> hashRing, zset |-> zset, hash |-> hash, str |-> str,
             n |-> 0, f |-> f]

\* The calls of a step that may fail: none once the behaviour has had its faults.
FaultCalls == IF flaky /\ faults < MaxFaults THEN 0..MaxCalls ELSE {0}

\* The step made with a fault planned at call f really met it.
FaultOK(f, st) == f = 0 \/ st.n >= f

Commit(f, st) ==
    /\ zset' = st.zset
    /\ hash' = st.hash
    /\ str' = st.str
    /\ faults' = IF f = 0 THEN faults ELSE faults + 1

\* The state after NewConsistentHash(hashRing, encryptor, migrator) on a new ring.
InitWith(rings, migrators, encryptors, flakies) ==
    /\ hashRing \in rings
    /\ migrator \in migrators
    /\ encryptor \in encryptors
    /\ flaky \in flakies
    /\ zset = {}
    /\ hash = [k \in {} |-> 0]
    /\ str = NoStrs
    /\ lock = Free
    /\ pc = [p \in Procs |-> "idle"]
    /\ inv = [p \in Procs |-> NoInv]
    /\ tasks = [p \in Procs |-> <<>>]
    /\ ops = 0
    /\ faults = 0
    /\ snap = [p \in Procs |-> NoSnap]
    /\ last = NoLast
    /\ failed = NoFailed
    /\ resolved = {}
    /\ expired = {}

Init == InitWith({"RedisHashRing", "HashRing"}, BOOLEAN, Encryptors, {TRUE})

\* ------------------------------------------------------------ actions
\* The arguments of the migrator in the other order.
Task_swapped(pl) == [datas |-> pl.datas, from |-> pl.to, to |-> pl.from, state |-> "queued"]

Task(pl) == [datas |-> pl.datas, from |-> pl.from, to |-> pl.to, state |-> "queued"]

Finished(t) == t.state \in {"done", "failed"}

\* SET without NX: the key is written whoever holds it.
LockFree_noNX == TRUE

\* c.hashRing.Lock succeeded: SET lockKey token EX ttl NX found no holder.
LockFree == lock = Free

Lock(p, op, arg, weight, maxOps) ==
    /\ pc[p] = "idle"
    /\ ops < maxOps
    /\ LockFree
    /\ lock' = p
    /\ pc' = [pc EXCEPT ![p] = "head"]
    /\ inv' = [inv EXCEPT ![p] = [NoInv EXCEPT !.op = op, !.arg = arg, !.weight = weight]]
    /\ ops' = ops + 1
    /\ snap' = [snap EXCEPT ![p] = [zset |-> zset, hash |-> hash, str |-> str,
                                    faults |-> faults]]
    /\ last' = IF op = "RemoveNode" /\ arg = last.arg THEN last ELSE NoLast
    /\ failed' = IF failed = [op |-> op, arg |-> arg, weight |-> weight]
                 THEN failed ELSE NoFailed
    /\ UNCHANGED <<config, store, tasks, faults, resolved, expired>>

\* The key's TTL ran out: Redis drops the lock whatever its holder is doing.
Expire ==
    /\ lock # Free
    /\ lock' = Free
    /\ expired' = expired \cup {lock}
    /\ UNCHANGED <<config, store, pc, inv, tasks, ops, faults, snap, last, failed,
                   resolved>>

\* The head of AddNode or RemoveNode: to the loop, or out with an error.
Enter(p, f, r) ==
    /\ FaultOK(f, r.st)
    /\ Commit(f, r.st)
    /\ IF r.err # Nil
       THEN /\ pc' = [pc EXCEPT ![p] = "ret"]
            /\ inv' = [inv EXCEPT ![p].err = r.err]
       ELSE /\ pc' = [pc EXCEPT ![p] = IF r.val > 0 THEN "loop" ELSE "exec"]
            /\ inv' = [inv EXCEPT ![p].replicas = r.val]
    /\ UNCHANGED <<config, lock, tasks, ops, history>>

\* The task list after one turn of the loop that planned pl.
Enqueue(list, pl) == IF pl.datas = {} THEN list ELSE Append(list, Task(pl))

\* One turn of the loop: out with an error, or on with the task appended.
Turn(p, f, pl) ==
    /\ FaultOK(f, pl.st)
    /\ Commit(f, pl.st)
    /\ IF pl.err # Nil
       THEN /\ pc' = [pc EXCEPT ![p] = "ret"]
            /\ inv' = [inv EXCEPT ![p].err = pl.err]
            /\ tasks' = tasks
       ELSE /\ pc' = [pc EXCEPT ![p] =
                        IF inv[p].i + 1 < inv[p].replicas THEN "loop" ELSE "exec"]
            /\ inv' = [inv EXCEPT ![p].i = @ + 1]
            /\ tasks' = [tasks EXCEPT ![p] = Enqueue(@, pl)]
    /\ UNCHANGED <<config, lock, ops, history>>

AddNodeBegin(p) ==
    /\ pc[p] = "head" /\ inv[p].op = "AddNode"
    /\ \E f \in FaultCalls :
          \E r \in {AddNodeHead(Store(f), inv[p].arg, inv[p].weight)} : Enter(p, f, r)

AddNodeLoop(p) ==
    /\ pc[p] = "loop" /\ inv[p].op = "AddNode"
    /\ \E f \in FaultCalls :
          \E pl \in {AddNodeIter(Store(f), encryptor, migrator, inv[p].arg, inv[p].i)} :
             Turn(p, f, pl)

RemoveNodeBegin(p) ==
    /\ pc[p] = "head" /\ inv[p].op = "RemoveNode"
    /\ \E f \in FaultCalls :
          \E r \in {RemoveNodeHead(Store(f), inv[p].arg)} : Enter(p, f, r)

RemoveNodeLoop(p) ==
    /\ pc[p] = "loop" /\ inv[p].op = "RemoveNode"
    /\ \E f \in FaultCalls :
          \E pl \in {RemoveNodeIter(Store(f), encryptor, migrator, inv[p].arg, inv[p].i)} :
             Turn(p, f, pl)

GetNode(p) ==
    /\ pc[p] = "head" /\ inv[p].op = "GetNode"
    /\ \E f \in FaultCalls :
          \E r \in {GetNodeBody(Store(f), encryptor, inv[p].arg)} :
          /\ FaultOK(f, r.st)
          /\ Commit(f, r.st)
          /\ pc' = [pc EXCEPT ![p] = "ret"]
          /\ inv' = [inv EXCEPT ![p].err = r.err, ![p].val = r.val]
          /\ resolved' = IF r.err = Nil THEN resolved \cup {inv[p].arg} ELSE resolved
    /\ UNCHANGED <<config, lock, tasks, ops, snap, last, failed, expired>>

\* The goroutines started as the tasks are appended, inside the loop.
Batch_inLoop(p) == pc[p] \in {"loop", "exec"}

\* batchExecuteMigrator may start the goroutines of the task list.
Batch(p) == pc[p] = "exec"

\* batchExecuteMigrator: every task runs in a goroutine of its own.
TaskStart(p, t) ==
    /\ Batch(p)
    /\ tasks[p][t].state = "queued"
    /\ tasks' = [tasks EXCEPT ![p][t].state = "running"]
    /\ UNCHANGED <<config, store, lock, pc, inv, ops, faults, history>>

\* The migrator returned, nil or an error: the task drops what it returns.
TaskReturn(p, t, ok) ==
    /\ pc[p] = "exec"
    /\ tasks[p][t].state = "running"
    /\ tasks' = [tasks EXCEPT ![p][t].state = IF ok THEN "done" ELSE "failed"]
    /\ UNCHANGED <<config, store, lock, pc, inv, ops, faults, history>>

\* The migrator panicked: the goroutine's deferred function recovers and calls
\* log.Fatal, which exits the process; no deferred Unlock runs.
TaskPanic(p, t) ==
    /\ pc[p] = "exec"
    /\ tasks[p][t].state = "running"
    /\ tasks' = [tasks EXCEPT ![p][t].state = "panicked"]
    /\ pc' = [pc EXCEPT ![p] = "dead"]
    /\ UNCHANGED <<config, store, lock, inv, ops, faults, history>>

\* wg.Wait returns: every goroutine called wg.Done.
Waited(p) == \A t \in 1..Len(tasks[p]) : Finished(tasks[p][t])

Join(p) ==
    /\ pc[p] = "exec"
    /\ Waited(p)
    /\ pc' = [pc EXCEPT ![p] = "ret"]
    /\ UNCHANGED <<config, store, lock, inv, tasks, ops, faults, history>>

\* The return of the handler: its deferred Unlock deletes the lock key when the
\* key still holds this caller's token.
Return(p) ==
    /\ pc[p] = "ret"
    /\ lock' = IF lock = p THEN Free ELSE lock
    /\ last' = IF inv[p].op = "AddNode" /\ inv[p].err = Nil
               THEN [arg |-> inv[p].arg, before |-> snap[p]]
               ELSE NoLast
    /\ failed' = IF /\ inv[p].op \in {"AddNode", "RemoveNode"}
                    /\ inv[p].err # Nil
                    /\ <<zset, hash, str>> # <<snap[p].zset, snap[p].hash, snap[p].str>>
                 THEN [op |-> inv[p].op, arg |-> inv[p].arg, weight |-> inv[p].weight]
                 ELSE NoFailed
    /\ pc' = [pc EXCEPT ![p] = "idle"]
    /\ inv' = [inv EXCEPT ![p] = NoInv]
    /\ tasks' = [tasks EXCEPT ![p] = <<>>]
    /\ snap' = [snap EXCEPT ![p] = NoSnap]
    /\ expired' = expired \ {p}
    /\ UNCHANGED <<config, store, ops, faults, resolved>>

\* What the callers of P may do with the nodes N, the weights W and the keys K.
Calls(P, N, W, K, maxOps) ==
    \/ \E p \in P, n \in N, w \in W : Lock(p, "AddNode", n, w, maxOps)
    \/ \E p \in P, n \in N : Lock(p, "RemoveNode", n, 0, maxOps)
    \/ \E p \in P, k \in K : Lock(p, "GetNode", k, 0, maxOps)
    \/ \E p \in P : AddNodeBegin(p)
    \/ \E p \in P : AddNodeLoop(p)
    \/ \E p \in P : RemoveNodeBegin(p)
    \/ \E p \in P : RemoveNodeLoop(p)
    \/ \E p \in P : GetNode(p)
    \/ \E p \in P : \E t \in 1..Len(tasks[p]) : TaskStart(p, t)
    \/ \E p \in P : \E t \in 1..Len(tasks[p]), ok \in BOOLEAN : TaskReturn(p, t, ok)
    \/ \E p \in P : \E t \in 1..Len(tasks[p]) : TaskPanic(p, t)
    \/ \E p \in P : Join(p)
    \/ \E p \in P : Return(p)

\* ------------------------------------------------------------ specifications
\* One caller at a time, every invocation ending within the TTL of its lock.
Next == Calls({"p1"}, NodeIDs, Weights, KeySet, MaxOps)

Spec == Init /\ [][Next]_vars

\* A longer life of a small ring: two nodes of one replica come and go around one key.
NextChurn == Calls({"p1"}, {<<"A">>, <<"C">>}, {1}, {<<"k1">>}, ChurnOps)

SpecChurn == Init /\ [][NextChurn]_vars

\* A ring that grows to three nodes of one replica around one key.
NextGrow == Calls({"p1"}, NodeIDs, {1}, {<<"k1">>}, GrowOps)

SpecGrow == Init /\ [][NextGrow]_vars

\* Two callers on one ring with a migrator, with invocations that may outlive
\* the TTL of the lock, over a connection that does not fail.
InitLock == InitWith({"RedisHashRing", "HashRing"}, {TRUE}, {EncSpread}, {FALSE})

NextLock ==
    \/ Calls(Procs, {<<"A">>, <<"C">>}, {1}, {<<"k1">>}, LockOps)
    \/ Expire

SpecLock == InitLock /\ [][NextLock]_vars

\* Two nodes of a weight below, inside and above the range getValidWeight keeps,
\* on a ring with a migrator.
InitWeigh == InitWith({"RedisHashRing", "HashRing"}, {TRUE}, {EncWide}, {TRUE})

NextWeigh == Calls({"p1"}, WideNodes, {-1, 3, 12}, {<<"k1">>}, WeighOps)

SpecWeigh == InitWeigh /\ [][NextWeigh]_vars

\* Two nodes of two replicas, the id of one being what getNodeID reads in the
\* raw keys of the other, under a hasher that makes their virtual nodes collide.
InitAlias == InitWith({"RedisHashRing", "HashRing"}, {TRUE}, {EncAlias(7), EncAlias(900)}, {TRUE})

NextAlias == Calls({"p1"}, {<<"A">>, Alias}, {2}, {<<"k1">>}, AliasOps)

SpecAlias == InitAlias /\ [][NextAlias]_vars

\* Two nodes of one or two replicas that come, go and come again around one key,
\* with a migrator, over a connection that does not fail.
InitTwice == InitWith({"RedisHashRing", "HashRing"}, {TRUE}, {EncSpread}, {FALSE})

NextTwice == Calls({"p1"}, {<<"A">>, <<"B">>}, Weights, {<<"k1">>}, TwiceOps)

SpecTwice == InitTwice /\ [][NextTwice]_vars

\* ------------------------------------------------------------ observations
\* owns(id) in the ownership strings s.
Owns(s, id) == IF id \in DOMAIN s THEN s[id] ELSE {}

\* The ids whose ownership set holds k.
Holders(s, k) == {id \in DOMAIN s : k \in s[id]}

\* The id AddNode was given for the virtual node it named raw.
RealNodeOf(raw) ==
    CHOOSE n \in NodeIDs : \E i \in 0..(MaxReplicas - 1) : raw = getRawNodeKey(n, i)

\* The first bucket position at or after h, wrapping to the least one.
CeilingOf(h) ==
    LET all == {e[2] : e \in zset}
        up  == {x \in all : x >= h}
    IN  IF up = {} THEN Least(all) ELSE Least(up)

\* The real node at the head of the bucket at ceiling(encrypt(k)) in the ring now.
HeadNode(k) ==
    RealNodeOf((CHOOSE e \in zset : e[2] = CeilingOf(encryptor[k]))[1][1])

\* No invocation is under way and the lock key is absent.
Quiet == lock = Free /\ \A p \in Procs : pc[p] = "idle"

\* ------------------------------------------------------------ claims
\* C1: on a ring with at least one bucket, the node a GetNode(k) returns is the
\* real node id of the head of the bucket at ceiling(encrypt(k)), and k has been
\* recorded in the ownership set of that real node id.
C1_GetNodeReturnsRealHead ==
    \A p \in Procs :
        (pc[p] = "ret" /\ inv[p].op = "GetNode" /\ zset # {} /\ inv[p].err = Nil)
        => /\ inv[p].val = HeadNode(inv[p].arg)
           /\ inv[p].arg \in Owns(str, HeadNode(inv[p].arg))

\* No store call has failed and a migrator is registered: the setting in which
\* the planner is to keep the ownership sets in step with the ring.
Sound == faults = 0 /\ migrator

\* C2: between invocations, every key GetNode has resolved is in the ownership
\* set of the real node at the head of the bucket at its ceiling in the ring now
\* (stated for a ring with a migrator on which no store call has failed).
C2_ResolvedKeysFollowRing ==
    (Quiet /\ Sound /\ zset # {}) => \A k \in resolved : k \in Owns(str, HeadNode(k))

\* C3: while no invocation holds the ring lock, each data key is a member of at
\* most one ownership set (stated for a ring with a migrator on which no store
\* call has failed).
C3_OneOwnerPerKey ==
    (Quiet /\ Sound) => \A k \in KeySet : Cardinality(Holders(str, k)) <= 1

\* The invocation of p is a topology change that has returned nil.
Changed(p) ==
    /\ pc[p] = "ret"
    /\ inv[p].op \in {"AddNode", "RemoveNode"}
    /\ inv[p].err = Nil

\* C4: an AddNode or RemoveNode whose migrator callbacks all succeeded leaves
\* every data key in as many ownership sets as it was in before the call (stated
\* for a ring with a migrator on which no store call has failed).
C4_OwnershipConserved ==
    \A p \in Procs :
        (Changed(p) /\ Sound /\ \A t \in 1..Len(tasks[p]) : tasks[p][t].state = "done")
        => \A k \in KeySet :
              Cardinality(Holders(str, k)) = Cardinality(Holders(snap[p].str, k))

\* The invocation of p is an AddNode that has got past its duplicate check.
Adding(p) == inv[p].op = "AddNode" /\ pc[p] \in {"loop", "exec", "ret", "dead"}

\* C5: an AddNode(n, w) emits only tasks with to = n, and adds no data key to
\* the ownership set of any id other than n.
C5_AddMovesOnlyToNewNode ==
    \A p \in Procs :
        Adding(p)
        => /\ \A t \in 1..Len(tasks[p]) : tasks[p][t].to = inv[p].arg
           /\ \A id \in DOMAIN str \ {inv[p].arg} :
                 Owns(str, id) \subseteq Owns(snap[p].str, id)

\* An AddNode to a ring of two other nodes has moved a key and returns nil.
C5_Witness ==
    \E p \in Procs :
        /\ Adding(p) /\ pc[p] = "ret" /\ inv[p].err = Nil
        /\ Cardinality(DOMAIN hash) = 3
        /\ Len(tasks[p]) > 0
        /\ Owns(str, inv[p].arg) # Owns(snap[p].str, inv[p].arg)

\* C6: a successful RemoveNode(n) that immediately follows a successful
\* AddNode(n, w) leaves the replica map, the ring and the ownership set of every
\* other id as they were before the AddNode (stated for a ring with a migrator
\* on which no store call has failed).
C6_AddRemoveRoundTrip ==
    \A p \in Procs :
        (Changed(p) /\ Sound /\ inv[p].op = "RemoveNode" /\ last.arg = inv[p].arg)
        => /\ hash = last.before.hash
           /\ zset = last.before.zset
           /\ \A m \in (DOMAIN str \cup DOMAIN last.before.str)
                          \ {inv[p].arg, FmtBadVerbD(inv[p].arg)} :
                 Owns(str, m) = Owns(last.before.str, m)

\* The callers between the acquisition of the lock and their return.
InCall == {p \in Procs : pc[p] \in {"head", "loop", "exec", "ret"}}

\* C7 as stated: at most one invocation is between its acquisition of the lock
\* and its return at any time.
C7_MutualExclusion == Cardinality(InCall) <= 1

\* C7: at most one invocation whose lock key has not run out of its TTL is
\* between its acquisition of the lock and its return at any time.
C7_MutualExclusionWithinTTL == Cardinality(InCall \ expired) <= 1

\* One caller is in its call holding the lock, within the TTL, after an earlier
\* invocation; the other caller is kept waiting.
C7_Witness ==
    \E p \in Procs :
        /\ InCall = {p} /\ lock = p /\ expired = {}
        /\ ops >= 2
        /\ \A q \in Procs \ {p} : pc[q] = "idle"

\* C8: an invocation that has ended, by returning or with its process, no
\* longer holds the ring lock.
C8_LockReleasedOnEveryPath ==
    \A p \in Procs : pc[p] \in {"idle", "dead"} => lock # p

\* C9: a migrator callback that panicked leaves the host process running.
C9_PanicContained ==
    \A p \in Procs :
        (\E t \in 1..Len(tasks[p]) : tasks[p][t].state = "panicked") => pc[p] # "dead"

Started(t) == t.state # "queued"

\* C10: once a migrator callback of a call has started, the call has made the
\* store writes of all its replicas and makes no further one; and the call gives
\* up the lock only when every callback it started has finished.
C10_CallbacksAfterWritesBeforeUnlock ==
    [][\A p \in Procs :
          /\ (\E t \in 1..Len(tasks'[p]) : Started(tasks'[p][t]))
             => /\ inv'[p].i = inv'[p].replicas
                /\ store' = store
          /\ (pc[p] # "idle" /\ pc'[p] = "idle")
             => \A t \in 1..Len(tasks[p]) :
                   Started(tasks[p][t]) => Finished(tasks[p][t])]_vars

\* A call is about to return holding the lock, with a callback that ran and
\* finished.
C10_Witness ==
    \E p \in Procs :
        /\ pc[p] = "ret" /\ lock = p
        /\ \E t \in 1..Len(tasks[p]) : Finished(tasks[p][t])

\* No store call of p's invocation has failed.
Clean(p) == faults = snap[p].faults

\* The invocation of p has come to its return.
Returns(p, op) == pc[p] = "ret" /\ inv[p].op = op

\* C11: on a ring with no bucket, a GetNode during which no store call fails
\* returns the error 'no node available', and leaves the ownership sets as
\* they were.
C11_EmptyRingNoNodeAvailable ==
    \A p \in Procs :
        (Returns(p, "GetNode") /\ snap[p].zset = {} /\ Clean(p))
        => /\ inv[p].err = ErrNoNodeAvailable
           /\ str = snap[p].str

\* The store is as p found it when it took the lock.
Untouched(p) == <<zset, hash, str>> = <<snap[p].zset, snap[p].hash, snap[p].str>>

\* C12: an AddNode of a node id that is among the replicas returns an error,
\* 'repeat node' when no store call failed, with the ring table, the replicas
\* and the ownership sets as they were and no migrator task planned.
C12_DuplicateAddRejected ==
    \A p \in Procs :
        (Returns(p, "AddNode") /\ inv[p].arg \in DOMAIN snap[p].hash)
        => /\ inv[p].err # Nil
           /\ Clean(p) => inv[p].err = ErrRepeatNode
           /\ Untouched(p)
           /\ tasks[p] = <<>>

\* A second AddNode of a node standing on the ring came back with 'repeat node'.
C12_Witness ==
    \E p \in Procs :
        /\ Returns(p, "AddNode") /\ inv[p].arg \in DOMAIN snap[p].hash
        /\ inv[p].err = ErrRepeatNode
        /\ zset # {}

\* C13: a RemoveNode of a node id that is not among the replicas returns an
\* error, 'invalid node id' when no store call failed, with the ring table, the
\* replicas and the ownership sets as they were.
C13_UnknownRemoveRejected ==
    \A p \in Procs :
        (Returns(p, "RemoveNode") /\ inv[p].arg \notin DOMAIN snap[p].hash)
        => /\ inv[p].err # Nil
           /\ Clean(p) => inv[p].err = ErrInvalidNodeID
           /\ Untouched(p)

\* A RemoveNode of an absent node came back with 'invalid node id' from a ring
\* that holds another node.
C13_Witness ==
    \E p \in Procs :
        /\ Returns(p, "RemoveNode") /\ inv[p].arg \notin DOMAIN snap[p].hash
        /\ inv[p].err = ErrInvalidNodeID
        /\ zset # {} /\ DOMAIN hash # {}

\* The data keys recorded for the node n in the ownership strings s, under the
\* id AddNode was given or under the id GetNode derives from the raw key.
Keeps(s, n) == Owns(s, n) \cup Owns(s, FmtBadVerbD(n))

\* C14: with a migrator, a RemoveNode of the only registered node, which owns a
\* data key, returns 'no other no' or 'no other node' when no store call failed.
C14_LoneOwnerCannotLeave ==
    \A p \in Procs :
        (/\ Returns(p, "RemoveNode") /\ Sound
         /\ DOMAIN snap[p].hash = {inv[p].arg}
         /\ Keeps(snap[p].str, inv[p].arg) # {})
        => inv[p].err \in {ErrNoOtherNo, ErrNoOtherNode}

\* w kept within lo..hi.
Clamp(w, lo, hi) == IF w < lo THEN lo ELSE IF w > hi THEN hi ELSE w

\* C15: the replica count of a node changes only when an AddNode registers the
\* node, and is then the weight of that call kept within 1..10, times
\* replicaScale; so every registered node has the count of its registration.
C15_ReplicasAreClampedWeight ==
    [][\A n \in NodeIDs :
          (n \in DOMAIN hash' /\ (n \notin DOMAIN hash \/ hash'[n] # hash[n]))
          => \E p \in Procs :
                /\ inv[p].op = "AddNode" /\ inv[p].arg = n /\ pc[p] = "head"
                /\ hash'[n] = Clamp(inv[p].weight, 1, 10) * replicaScale]_vars

\* A node of weight 12 stands registered with 10 virtual nodes, all on the ring,
\* beside a node of weight -1 registered with one.
C15_Witness ==
    \E p \in Procs, m \in DOMAIN hash :
        /\ Returns(p, "AddNode") /\ inv[p].err = Nil
        /\ inv[p].weight = 12 /\ inv[p].i = 10
        /\ inv[p].arg \in DOMAIN hash /\ hash[inv[p].arg] = 10 * replicaScale
        /\ m # inv[p].arg /\ hash[m] = replicaScale

\* C16: the ring table holds at most one element for a score, and the node
\* list of every element is non-empty.
C16_BucketsNonEmpty ==
    /\ \A e \in zset : Len(e[1]) > 0
    /\ \A e1, e2 \in zset : e1[2] = e2[2] => e1 = e2

\* A RemoveNode on the RedisHashRing returned nil: a bucket that held one
\* virtual node is gone from the ring table, and a bucket that held two is
\* still there with one.
C16_Witness ==
    \E p \in Procs :
        /\ Returns(p, "RemoveNode") /\ inv[p].err = Nil
        /\ hashRing = "RedisHashRing"
        /\ \E e \in snap[p].zset : Len(e[1]) = 1 /\ \A x \in zset : x[2] # e[2]
        /\ \E e \in snap[p].zset : Len(e[1]) = 2 /\ \E x \in zset : x[2] = e[2] /\ Len(x[1]) = 1

\* C17: an invocation on the RedisHashRing during which a store call failed
\* returns an error.
C17_StoreErrorsPropagate ==
    \A p \in Procs :
        (pc[p] = "ret" /\ hashRing = "RedisHashRing" /\ ~Clean(p))
        => inv[p].err # Nil

\* The invocation of p issues again the topology change that failed last.
Reissue(p) ==
    /\ failed.op # "none"
    /\ failed = [op |-> inv[p].op, arg |-> inv[p].arg, weight |-> inv[p].weight]

\* The virtual node i of n stands in the bucket of its position.
OnRing(n, i) ==
    \E e \in zset :
        /\ e[2] = encryptor[getRawNodeKey(n, i)]
        /\ \E j \in 1..Len(e[1]) : e[1][j] = getRawNodeKey(n, i)

\* C18: on the RedisHashRing, an AddNode or RemoveNode issued again after it
\* returned an error with the store changed, and meeting no store failure,
\* returns nil; the AddNode leaves the node registered with every virtual node
\* of its weight on the ring.
C18_ReissueRecovers ==
    \A p \in Procs :
        (pc[p] = "ret" /\ Reissue(p) /\ Clean(p) /\ hashRing = "RedisHashRing")
        => /\ inv[p].err = Nil
           /\ inv[p].op = "AddNode"
              => /\ inv[p].arg \in DOMAIN hash
                 /\ hash[inv[p].arg] = Clamp(inv[p].weight, 1, 10) * replicaScale
                 /\ \A i \in 0..(hash[inv[p].arg] - 1) : OnRing(inv[p].arg, i)

\* Ownership strings a second run may hold over the same ring table: none, or
\* every data key under each id of a set of ids.
OwnerIDs == NodeIDs \cup {FmtBadVerbD(n) : n \in NodeIDs}
Ownerships == {[id \in I |-> KeySet] : I \in SUBSET OwnerIDs}

\* The store of a run that holds the ring table and the replicas p found, the
\* ownership strings s, and a connection that does not fail.
Beside(p, s) == [impl |-> hashRing, zset |-> snap[p].zset, hash |-> snap[p].hash,
                 str |-> s, n |-> 0, f |-> 0]

\* C19: a GetNode that met no store failure returns what a GetNode of the same
\* key returns in any run with the same ring table, whatever the ownership
\* strings of that run: the same error, and the same node.
C19_GetNodeIgnoresOwnership ==
    \A p \in Procs :
        (Returns(p, "GetNode") /\ Clean(p))
        => \A s \in Ownerships \cup {snap[p].str} :
              \E r \in {GetNodeBody(Beside(p, s), encryptor, inv[p].arg)} :
                  r.err = inv[p].err /\ r.val = inv[p].val

\* A GetNode returned the head of a bucket of two virtual nodes on a ring of
\* two buckets, and recorded the key for it.
C19_Witness ==
    \E p \in Procs :
        /\ Returns(p, "GetNode") /\ Clean(p) /\ inv[p].err = Nil
        /\ \E e \in zset : Len(e[1]) = 2 /\ e[1][1] = inv[p].val
        /\ Cardinality(zset) >= 2
        /\ inv[p].arg \in Owns(str, getNodeID(inv[p].val))

\* h lies in the circular half-open arc (from, to] of the ring.
InArc(from, to, h) ==
    IF from < to THEN from < h /\ h <= to ELSE h > from \/ h <= to

\* The bucket scores of the ring table z.
ScoresOf(z) == {e[2] : e \in z}

\* The bucket score before h on the ring of scores S, wrapping to the greatest.
PredOf(S, h) ==
    IF \E x \in S : x < h
    THEN CHOOSE x \in S : x < h /\ \A y \in S : y < h => y <= x
    ELSE CHOOSE x \in S : \A y \in S : y <= x

\* The bucket score after h on the ring of scores S, wrapping to the least.
SuccOf(S, h) ==
    IF \E x \in S : x > h
    THEN CHOOSE x \in S : x > h /\ \A y \in S : y > h => x <= y
    ELSE CHOOSE x \in S : \A y \in S : x <= y

\* The node list of the bucket at score h of the ring table z.
ListAt(z, h) == (CHOOSE e \in z : e[2] = h)[1]

\* The data keys of the task a turn of the loop appended, if it appended one.
Planned(before, after) ==
    IF Len(after) > Len(before) THEN after[Len(after)].datas ELSE {}

\* C20: with a migrator and no store failure, a turn of AddNode's loop that
\* leaves the new virtual node alone in its bucket at cur, on a ring of two or
\* more buckets, plans for migration exactly the data keys recorded for the
\* head of the successor bucket whose position lies in (last, cur], and records
\* them for the new node.
C20_MigrateInMovesTheArc ==
    [][\A p \in Procs :
          (/\ pc[p] = "loop" /\ inv[p].op = "AddNode" /\ inv'[p].i = inv[p].i + 1
           /\ migrator /\ faults' = 0
           /\ Cardinality(ScoresOf(zset')) >= 2
           /\ encryptor[getRawNodeKey(inv[p].arg, inv[p].i)] \in ScoresOf(zset')
           /\ Len(ListAt(zset', encryptor[getRawNodeKey(inv[p].arg, inv[p].i)])) = 1)
          => \E cur \in {encryptor[getRawNodeKey(inv[p].arg, inv[p].i)]} :
             \E head \in {ListAt(zset', SuccOf(ScoresOf(zset'), cur))[1]} :
             \E arc \in {{k \in Keeps(str, RealNodeOf(head)) :
                             InArc(PredOf(ScoresOf(zset'), cur), cur, encryptor[k])}} :
                 /\ Planned(tasks[p], tasks'[p]) = arc
                 /\ arc \subseteq Owns(str', inv[p].arg)]_vars

\* The position of the virtual node the loop of p is at.
CurOf(p) == encryptor[getRawNodeKey(inv[p].arg, inv[p].i)]

\* C21: with a migrator and no store failure, a turn of RemoveNode's loop at a
\* virtual node that heads its bucket at cur, for a node with data keys recorded,
\* plans for migration exactly the keys of the node whose position lies in
\* (last, cur], or all its keys when cur is the only score and its bucket has
\* another member.
C21_MigrateOutSelectsTheArc ==
    [][\A p \in Procs :
          (/\ pc[p] = "loop" /\ inv[p].op = "RemoveNode" /\ inv'[p].i = inv[p].i + 1
           /\ migrator /\ faults' = 0
           /\ CurOf(p) \in ScoresOf(zset)
           /\ ListAt(zset, CurOf(p))[1] = getRawNodeKey(inv[p].arg, inv[p].i)
           /\ Keeps(str, inv[p].arg) # {}
           /\ Cardinality(ScoresOf(zset)) >= 2 \/ Len(ListAt(zset, CurOf(p))) > 1)
          => Planned(tasks[p], tasks'[p]) =
                IF Cardinality(ScoresOf(zset)) = 1 THEN Keeps(str, inv[p].arg)
                ELSE {k \in Keeps(str, inv[p].arg) :
                         InArc(PredOf(ScoresOf(zset), CurOf(p)), CurOf(p), encryptor[k])}]_vars

\* C22: when no store call has failed, no task planned by a RemoveNode hands
\* the data keys to the node that is being removed.
C22_DestinationIsNotVictim ==
    \A p \in Procs :
        (inv[p].op = "RemoveNode" /\ Sound)
        => \A t \in 1..Len(tasks[p]) : tasks[p][t].to # inv[p].arg

\* Every bucket of the ring table holds one virtual node, which getNodeID reads
\* as a virtual node of v.
AllHeadedBy(v) ==
    zset # {} /\ \A e \in zset : Len(e[1]) = 1 /\ getNodeID(e[1][1]) = v

\* C23: on a ring whose buckets all hold a single virtual node read as the
\* victim's, the walk for the next node from any bucket comes back with the
\* empty id, without an error on a store that answers, after no more than one
\* Ceiling and one Node call for each bucket and one Ceiling more.
C23_WalkStopsAfterOneTurn ==
    \A v \in {getNodeID(e[1][1]) : e \in zset}, h \in ScoresOf(zset) :
        AllHeadedBy(v)
        => \E r \in {getvaildNextNode(Store(0), h, v, {})} :
              /\ r.val = NoStr
              /\ hashRing = "HashRing" => r.err = Nil
              /\ r.st.n <= 2 * Cardinality(zset) + 1

\* A RemoveNode came back with 'no other node': its walk went round a ring of
\* two buckets, each holding one virtual node read as the victim's.
C23_Witness ==
    \E p \in Procs :
        /\ Returns(p, "RemoveNode") /\ inv[p].err = ErrNoOtherNode
        /\ AllHeadedBy(inv[p].arg)
        /\ Cardinality(zset) = 2

\* The node list of the bucket at score h of the ring table z, empty for none.
BucketOf(z, h) == IF h \in ScoresOf(z) THEN ListAt(z, h) ELSE <<>>

\* The list l without the member x, the others in the order they had.
Without(l, x) ==
    IF \E j \in 1..Len(l) : l[j] = x
    THEN RemoveAt(l, CHOOSE j \in 1..Len(l) : l[j] = x /\ \A h \in 1..(j - 1) : l[h] # x)
    ELSE l

\* C24: a turn of AddNode's loop that succeeds leaves the bucket of its
\* virtual node with that node appended at the end, or as it was when the node
\* was in it; a turn of RemoveNode's loop that succeeds leaves it without that
\* node and with the others in their order; no other bucket changes.
C24_AddAppendsRemKeepsOrder ==
    [][\A p \in Procs :
          (pc[p] = "loop" /\ inv'[p].i = inv[p].i + 1)
          => \E raw \in {getRawNodeKey(inv[p].arg, inv[p].i)} :
             \E old \in {BucketOf(zset, CurOf(p))} :
                 /\ \A h \in (ScoresOf(zset) \cup ScoresOf(zset')) \ {CurOf(p)} :
                        BucketOf(zset', h) = BucketOf(zset, h)
                 /\ inv[p].op = "AddNode"
                    => BucketOf(zset', CurOf(p)) =
                          IF \E j \in 1..Len(old) : old[j] = raw THEN old
                          ELSE Append(old, raw)
                 /\ inv[p].op = "RemoveNode"
                    => BucketOf(zset', CurOf(p)) = Without(old, raw)]_vars

\* On the RedisHashRing a RemoveNode took its first virtual node from the
\* middle of a bucket of four that two AddNode calls had filled in order.
C24_Witness ==
    \E p \in Procs :
        /\ inv[p].op = "RemoveNode" /\ inv[p].i = 1 /\ hashRing = "RedisHashRing"
        /\ \E old \in {BucketOf(snap[p].zset, encryptor[getRawNodeKey(inv[p].arg, 0)])} :
               /\ Len(old) = 4 /\ old[3] = getRawNodeKey(inv[p].arg, 0)
               /\ BucketOf(zset, encryptor[getRawNodeKey(inv[p].arg, 0)])
                     = <<old[1], old[2], old[4]>>

\* C25: on the RedisHashRing with a migrator, an AddNode of a node id that is
\* not among the replicas returns nil when no store call has failed.
C25_AddNodeSucceeds ==
    \A p \in Procs :
        (/\ Returns(p, "AddNode") /\ Sound /\ hashRing = "RedisHashRing"
         /\ inv[p].arg \notin DOMAIN snap[p].hash)
        => inv[p].err = Nil

\* C26: when AddNode or RemoveNode comes to its return, the migrator has been
\* called for every task the call planned.
C26_EveryTransferIsMigrated ==
    \A p \in Procs :
        pc[p] = "ret" => \A t \in 1..Len(tasks[p]) : Started(tasks[p][t])

\* C27: on the RedisHashRing, whenever no invocation holds the lock, every node
\* has as many virtual nodes on the ring as the replicas record for it, and
\* none when the replicas do not hold it.
C27_RingMatchesReplicas ==
    (Quiet /\ hashRing = "RedisHashRing")
    => \A n \in NodeIDs :
          Cardinality({i \in 0..(MaxReplicas - 1) : OnRing(n, i)})
             = IF n \in DOMAIN hash THEN hash[n] ELSE 0

\* C28: no data key is in two tasks of the task list of one call.
C28_TasksAreDisjoint ==
    \A p \in Procs :
        \A t1, t2 \in 1..Len(tasks[p]) :
            t1 # t2 => tasks[p][t1].datas \cap tasks[p][t2].datas = {}

====
